---- MODULE Spec2Model ----
(***************************************************************************)
(* Portfolio optimisation web application.                                 *)
(*   data_processing.py : extraer_datos, perform_data_quality_checks,      *)
(*                        procesar_datos                                   *)
(*   market_data.py     : MarketData.get_risk_free_rate                    *)
(*   main.py            : cleanup_static_files, save_portfolio_growth_plot, *)
(*                        optimize (hardened entry point)                  *)
(*   app.py             : save_portfolio_growth_plot, optimize (basic      *)
(*                        entry point)                                     *)
(* Each component has its own specification over the shared variables:     *)
(*   SpecData, SpecFetch, SpecRate, SpecCleanup, SpecForm, Spec,           *)
(*   SpecBasic, SpecConcurrent.                                            *)
(***************************************************************************)
EXTENDS Integers, Sequences, FiniteSets, TLC

VARIABLES
    data,        \* data_processing: the DataFrame (or None) handed to the functions;
                 \*       for extraer_datos the tickers and what yf.download produced
    checked,     \* data_processing: what perform_data_quality_checks returned
    processed,   \* data_processing: what procesar_datos or extraer_datos returned
                 \*       or raised
    body,        \* market_data: what requests.get(API_URL) produced
    rate,        \* market_data: what get_risk_free_rate returned or raised
    static,      \* main: the names of the files in the output folder 'static'
    cleaned,     \* main: the last cleanup_static_files call (folder before, locked
                 \*       files, files_deleted_count, exception raised)
    handled,     \* main: number of POST /optimize requests handled
    request,     \* main: the last request: form, outcomes of the calls it made,
                 \*       error_messages, the steps it ran, the files it wrote
    response,    \* main: the last response: status, template, error_message
    previous     \* main: status and files of the request before the last
\* Under SpecConcurrent request and response hold one entry per request in flight.

dataVars == <<data, checked, processed>>
rateVars == <<body, rate>>
fileVars == <<static, cleaned>>
webVars == <<handled, request, response, previous>>
vars == <<data, checked, processed, body, rate, static, cleaned,
          handled, request, response, previous>>

(***************************************************************************)
(* Bounds                                                                  *)
(***************************************************************************)
\* Largest number of rows (dates) of a price table.
MaxRows == 3
\* Number of requests handled (each draws a fresh uuid for its file names).
MaxRequests == 2

\* Value of a variable of a component that has not been called.
NotCalled == [called |-> FALSE]

(***************************************************************************)
(* data_processing.py: price tables                                        *)
(***************************************************************************)
\* Column labels of the price tables (one column per ticker).
Tickers == <<"AAA", "BBB">>

\* Prices that occur in a cell: a positive price and zero.
Prices == {0, 10}

\* A cell: an absent value (NaN) or a price.
NaN == [na |-> TRUE, v |-> 0]
Cells == {NaN} \cup {[na |-> FALSE, v |-> p] : p \in Prices}

\* Python None, passed in place of a DataFrame.
None == [none |-> TRUE]

\* A DataFrame: ordered column labels, ordered rows (row i is date i).
DataFrame(cols, rows) == [none |-> FALSE, cols |-> cols, rows |-> rows]

\* pd.DataFrame(): no columns, no rows.
EmptyDataFrame == DataFrame(<<>>, <<>>)

RowsOfLen(n, width) == [1..n -> [1..width -> Cells]]

\* The tables with the first w tickers as columns: every row count up to MaxRows,
\* every cell content.
DataFramesOfWidth(w) ==
    UNION {{DataFrame(SubSeq(Tickers, 1, w), rows) : rows \in RowsOfLen(n, w)} : n \in 0..MaxRows}

\* len(df)
len(df) == Len(df.rows)

\* df.empty: true when any axis has length 0.
empty(df) == Len(df.rows) = 0 \/ Len(df.cols) = 0

\* df.isnull().sum()[col j]
isnull_sum(df, j) == Cardinality({i \in 1..Len(df.rows) : df.rows[i][j].na})

\* Mutant of dropna: how='all', dropping only the rows that are absent in every column.
dropna_how_all(df) ==
    DataFrame(df.cols, SelectSeq(df.rows, LAMBDA r : \E j \in 1..Len(df.cols) : ~r[j].na))

\* df.dropna(how='any'): the rows without any absent value, order and columns kept.
dropna(df) ==
    DataFrame(df.cols, SelectSeq(df.rows, LAMBDA r : \A j \in 1..Len(df.cols) : ~r[j].na))

\* Every table, for every column prefix of Tickers; and None.
DataFrames == UNION {DataFramesOfWidth(w) : w \in 0..Len(Tickers)}
DataArgs == DataFrames \cup {None}

\* A call's outcome: a returned value or a raised exception.
Return(v) == [called |-> TRUE, raised |-> "none", value |-> v]
Raise(e) == [called |-> TRUE, raised |-> e]

\* Threshold for excessive missing data, in percent.
MissingThreshold == 50
\* Threshold for a large single-day change, in percent (0.30).
OutlierThreshold == 30
\* Number of offending dates a message shows.
DatesShown == 5

\* Mutant of excessive_missing: the comparison written >= instead of >.
excessive_missing_ge(na_count, total_points) ==
    na_count * 100 >= MissingThreshold * total_points

\* na_percentage = (na_count / total_points) * 100;  na_percentage > 50
excessive_missing(na_count, total_points) ==
    na_count * 100 > MissingThreshold * total_points

\* Check 1: one message per column with excessive missing values, in column order.
missing_issues(df) ==
    LET total_points == len(df)
        flagged == {j \in 1..Len(df.cols) :
                        total_points > 0 /\ excessive_missing(isnull_sum(df, j), total_points)}
        msg(j) == [kind |-> "missing", ticker |-> df.cols[j],
                   na_count |-> isnull_sum(df, j), total_points |-> total_points]
        F[j \in 0..Len(df.cols)] ==
            IF j = 0 THEN <<>>
            ELSE IF j \in flagged THEN Append(F[j - 1], msg(j)) ELSE F[j - 1]
    IN  F[Len(df.cols)]

Abs(n) == IF n < 0 THEN -n ELSE n
MaxOf(S) == CHOOSE m \in S : \A k \in S : k <= m
\* The elements of a sequence.
Range(q) == {q[i] : i \in DOMAIN q}

\* The value pct_change sees at row i after its forward fill of absent values.
ffill(df, i, j) ==
    LET valid == {k \in 1..i : ~df.rows[k][j].na}
    IN  IF valid = {} THEN NaN ELSE df.rows[MaxOf(valid)][j]

\* returns.abs() > threshold at row i, column j (returns = df.pct_change()).
large_change(df, i, j) ==
    /\ i >= 2
    /\ LET cur == ffill(df, i, j)
           prev == ffill(df, i - 1, j)
       IN  /\ ~cur.na /\ ~prev.na
           /\ IF prev.v = 0 THEN cur.v # 0
              ELSE Abs(cur.v - prev.v) * 100 > OutlierThreshold * Abs(prev.v)

\* The elements of a set of row numbers in increasing order.
RECURSIVE Sorted(_)
Sorted(S) == IF S = {} THEN <<>> ELSE LET m == MaxOf(S) IN Append(Sorted(S \ {m}), m)

\* Check 2: one message per column with a large daily change, naming the first dates.
outlier_issues(df) ==
    LET dates(j) == Sorted({i \in 1..len(df) : large_change(df, i, j)})
        msg(j) == [kind |-> "outliers", ticker |-> df.cols[j],
                   dates |-> SubSeq(dates(j), 1, IF Len(dates(j)) > DatesShown
                                                 THEN DatesShown ELSE Len(dates(j))),
                   more |-> Len(dates(j)) > DatesShown]
        F[j \in 0..Len(df.cols)] ==
            IF j = 0 THEN <<>>
            ELSE IF dates(j) # <<>> THEN Append(F[j - 1], msg(j)) ELSE F[j - 1]
    IN  F[Len(df.cols)]

\* Check 3: one message listing the columns holding a zero or negative price.
nonpositive_issues(df) ==
    LET bad(j) == \E i \in 1..len(df) : ~df.rows[i][j].na /\ df.rows[i][j].v <= 0
        neg_zero_cols == SelectSeq(df.cols, LAMBDA c :
                            \E j \in 1..Len(df.cols) : df.cols[j] = c /\ bad(j))
    IN  IF neg_zero_cols # <<>>
        THEN <<[kind |-> "nonpositive", tickers |-> neg_zero_cols]>>
        ELSE <<>>

\* perform_data_quality_checks(df): returns (df, quality_issues).
perform_data_quality_checks(df) ==
    IF df = None THEN Raise("AttributeError")
    ELSE IF empty(df)
    THEN Return([df |-> df, quality_issues |-> <<[kind |-> "empty"]>>])
    ELSE Return([df |-> df,
                 quality_issues |-> missing_issues(df) \o outlier_issues(df)
                                        \o nonpositive_issues(df)])

\* procesar_datos(data): quality checks, then drop the incomplete rows.
procesar_datos(d) ==
    IF d = None \/ empty(d) THEN Return(EmptyDataFrame)
    ELSE LET data_checked == perform_data_quality_checks(d).value.df
             rows_before == len(data_checked)
             data_cleaned == dropna(data_checked)
         IN  IF empty(data_cleaned) /\ rows_before > 0
             THEN Raise("ValueError")
             ELSE Return(data_cleaned)

(***************************************************************************)
(* data_processing.py: extraer_datos (lines 24-90)                         *)
(***************************************************************************)
\* The tickers that can be requested, in alphabetical order, and the price fields
\* of the provider.
FetchTickers == <<"AAA", "BBB", "CCC">>
Fields == <<"Open", "Close">>

\* The orderings of a set: the sequences without repetition that list it.
Orderings(S) == {q \in [1..Cardinality(S) -> S] : \A x \in S : \E i \in DOMAIN q : q[i] = x}

\* The value the provider holds for a ticker's field: different for every ticker
\* and field.
Quote(label) ==
    [na |-> FALSE,
     v |-> 10 * (CHOOSE k \in DOMAIN FetchTickers : FetchTickers[k] = label[1])
           + (CHOOSE k \in DOMAIN Fields : Fields[k] = label[2])]

\* What yf.download returns. With two-level columns: the (ticker, field) labels in
\* the order listed, the ticker level of the column index (levels[0]) and the rows.
\* With single-level columns: the labels and the rows.
MultiFrame(columns, levels0, rows) ==
    [multi |-> TRUE, columns |-> columns, levels0 |-> levels0, rows |-> rows]
FlatFrame(columns, rows) == [multi |-> FALSE, columns |-> columns, rows |-> rows]

\* The (ticker, field) labels for the tickers in the order `order`, each with the
\* fields `fields`.
GroupedColumns(order, fields) ==
    [j \in 1..(Len(order) * Len(fields)) |->
        <<order[((j - 1) \div Len(fields)) + 1], fields[((j - 1) % Len(fields)) + 1]>>]

\* The rows of a provider frame: none; one date with every quote; that date and a
\* date on which the first column has no value.
QuoteRows(columns) ==
    LET full == [j \in 1..Len(columns) |-> Quote(columns[j])]
    IN  {<<>>, <<full>>, <<full, [full EXCEPT ![1] = NaN]>>}

\* The ticker level of a column index: its distinct tickers in sorted order, or in
\* the order in which the frame was put together (here the order listed).
Levels0(order) == {SelectSeq(FetchTickers, LAMBDA t : t \in Range(order)), order}

\* The arguments: a list of one to three distinct tickers, or a single ticker
\* given as a string.
TickerArgs ==
    UNION {{[list |-> TRUE, names |-> q] : q \in Orderings(S)} :
              S \in SUBSET Range(FetchTickers) \ {{}}}
    \cup {[list |-> FALSE, names |-> <<t>>] : t \in Range(FetchTickers)}

\* The two-level frames for the tickers S: every order of the tickers, with the
\* fields Close alone, Open and Close, or Open alone.
MultiFramesFor(S) ==
    UNION {UNION {UNION {{MultiFrame(GroupedColumns(order, fields), levels0, rows) :
                              rows \in QuoteRows(GroupedColumns(order, fields))} :
                          levels0 \in Levels0(order)} :
                      fields \in {<<"Close">>, Fields, <<"Open">>}} :
              order \in Orderings(S)}

\* The single-level frames: columns labelled by field (one ticker) or by some of
\* the tickers S.
FlatFramesFor(S) ==
    UNION {{FlatFrame(columns, rows) :
               rows \in {<<>>, << [j \in 1..Len(columns) |-> [na |-> FALSE, v |-> j]] >>}} :
              columns \in {Fields, <<"Open">>} \cup UNION {Orderings(T) : T \in SUBSET S \ {{}}}}

\* What yf.download does for given tickers: raises, or returns one of the frames.
Downloads(tickers) ==
    {Raise("Exception")}
    \cup {Return(f) : f \in MultiFramesFor(Range(tickers.names))
                          \cup FlatFramesFor(Range(tickers.names))}

\* The positions of the columns labelled with one of `labels`, in order.
positions(columns, labels) == Sorted({j \in 1..Len(columns) : columns[j] \in labels})

\* The labels (ticker, 'Close').
CloseLabels == {<<t, "Close">> : t \in Range(FetchTickers)}

\* The rows restricted to the columns at the positions `at`, in that order.
take(rows, at) == [i \in 1..Len(rows) |-> [k \in 1..Len(at) |-> rows[i][at[k]]]]

\* data.loc[:, pd.IndexSlice[:, 'Close']] (line 40): the columns whose field is
\* Close, in the order listed; the levels of the column index are kept as they
\* were; KeyError when no column has the field.
loc_close(frame) ==
    IF positions(frame.columns, CloseLabels) = <<>> THEN Raise("KeyError")
    ELSE Return(MultiFrame(
            take(<<frame.columns>>, positions(frame.columns, CloseLabels))[1],
            frame.levels0,
            take(frame.rows, positions(frame.columns, CloseLabels))))

\* data_close.columns = data_close.columns.levels[0] (line 42; nlevels is 2 after
\* the selection): the columns are relabelled by position with the ticker level;
\* ValueError when the lengths differ.
set_columns_levels0(data_close) ==
    IF Len(data_close.levels0) # Len(data_close.columns) THEN Raise("ValueError")
    ELSE Return(DataFrame(data_close.levels0, data_close.rows))

\* Lines 36-47: several tickers and two-level columns; on KeyError the frame is
\* kept as downloaded.
multi_index_branch(frame) ==
    IF loc_close(frame).raised = "KeyError" THEN Return(frame)
    ELSE set_columns_levels0(loc_close(frame).value)

\* Lines 49-58: several tickers and single-level columns.
single_level_branch(tickers, frame) ==
    LET fetched_tickers == SelectSeq(tickers.names, LAMBDA t : t \in Range(frame.columns))
    IN  IF Len(frame.rows) = 0 \/ Len(frame.columns) = 0 THEN Return(frame)
        ELSE IF fetched_tickers = <<>> THEN Return(EmptyDataFrame)
        ELSE Return(DataFrame(fetched_tickers,
                 take(frame.rows,
                      [k \in 1..Len(fetched_tickers) |->
                          CHOOSE j \in 1..Len(frame.columns) :
                              frame.columns[j] = fetched_tickers[k]])))

\* Lines 60-76: one ticker, in a list or as a string. 'Close' in data.columns looks
\* at the first level of two-level columns, which holds tickers.
single_ticker_branch(tickers, frame) ==
    IF ~frame.multi /\ "Close" \in Range(frame.columns)
    THEN Return(DataFrame(tickers.names,
                          take(frame.rows, positions(frame.columns, {"Close"}))))
    ELSE Return(frame)

\* The try body after the download.
structure_handling(tickers, frame) ==
    IF tickers.list /\ Len(tickers.names) > 1
    THEN IF frame.multi THEN multi_index_branch(frame)
         ELSE single_level_branch(tickers, frame)
    ELSE single_ticker_branch(tickers, frame)

\* extraer_datos(tickers, fecha_inicio): any exception is logged and an empty
\* DataFrame returned.
extraer_datos(tickers, download) ==
    IF download.raised # "none" THEN Return(EmptyDataFrame)
    ELSE IF structure_handling(tickers, download.value).raised # "none"
    THEN Return(EmptyDataFrame)
    ELSE structure_handling(tickers, download.value)

(***************************************************************************)
(* market_data.py: MarketData.get_risk_free_rate                           *)
(***************************************************************************)
\* The default rate 0.05, in hundredths.
DefaultRate == 5

\* Numbers a JSON body holds, in hundredths (0.05, 18.50).
JsonNumbers == {5, 1850}

\* Decoded JSON values (response.json()): None, bool, number, str, list, dict.
JsonNull == [t |-> "null"]
JsonNumber(n) == [t |-> "number", v |-> n]
JsonObject(m) == [t |-> "object", m |-> m]
JsonAtoms ==
    {JsonNull, [t |-> "bool", b |-> TRUE], [t |-> "string", s |-> "x"], [t |-> "array"]}
        \cup {JsonNumber(n) : n \in JsonNumbers}

\* The objects with keys among K and values among V.
ObjectsOver(K, V) == {JsonObject(m) : m \in UNION {[D -> V] : D \in SUBSET K}}

\* What the "rates" key may hold: any atom, or a map of currency codes to atoms.
RatesValues == JsonAtoms \cup ObjectsOver({"MXN", "EUR"}, JsonAtoms)

\* Response bodies that decode: atoms, and objects with or without "rates" and "base".
JsonBodies ==
    JsonAtoms \cup
    {JsonObject(m) : m \in [{"rates"} -> RatesValues] \cup [{"rates", "base"} -> RatesValues]
                            \cup {[k \in {"base"} |-> [t |-> "string", s |-> "x"]]}
                            \cup {[k \in {} |-> JsonNull]}}

\* Outcomes of requests.get(API_URL) followed by response.json().
HttpOutcomes ==
    {[net |-> "ConnectionError"], [net |-> "ok", json |-> FALSE]}
        \cup {[net |-> "ok", json |-> TRUE, value |-> j] : j \in JsonBodies}

\* d.get(key, default) of a decoded value: AttributeError unless d is a dict.
dict_get(d, key, default) ==
    IF d.t # "object" THEN Raise("AttributeError")
    ELSE IF key \in DOMAIN d.m THEN Return(d.m[key]) ELSE Return(default)

\* get_risk_free_rate(): the try body, and the except clause returning 0.05.
get_risk_free_rate(http) ==
    LET try ==
            IF http.net # "ok" THEN Raise(http.net)
            ELSE IF ~http.json THEN Raise("JSONDecodeError")
            ELSE LET rates == dict_get(http.value, "rates", JsonObject(<<>>))
                 IN  IF rates.raised # "none" THEN rates
                     ELSE dict_get(rates.value, "MXN", JsonNumber(DefaultRate))
    IN  IF try.raised # "none" THEN Return(JsonNumber(DefaultRate)) ELSE try

RateIdle == body = NotCalled /\ rate = NotCalled

(***************************************************************************)
(* main.py: the output folder and cleanup_static_files                     *)
(***************************************************************************)
\* A file name: prefix, identifier, extension (reporte_<uuid>.pdf).
File(prefix, id, ext) == [prefix |-> prefix, id |-> id, ext |-> ext]
ReportFile(id) == File("reporte_", id, ".pdf")
PlotFile(id) == File("growth_plot_", id, ".png")

\* Files of the folder that no request writes: a stylesheet and a text file whose
\* names match neither pattern.
OtherFiles == {File("style", 0, ".css"), File("reporte_", 0, ".txt")}

\* The uuids: 0 names files left by an earlier run of the process, 1..MaxRequests
\* are drawn by the requests.
Uuids == 0..MaxRequests
ArtifactFiles == {ReportFile(i) : i \in Uuids} \cup {PlotFile(i) : i \in Uuids}

\* The patterns optimize() passes: ["reporte_*.pdf", "growth_plot_*.png"].
Patterns == <<[prefix |-> "reporte_", ext |-> ".pdf"], [prefix |-> "growth_plot_", ext |-> ".png"]>>

\* glob.glob(os.path.join(folder_path, pattern))
glob(folder, pattern) == {f \in folder : f.prefix = pattern.prefix /\ f.ext = pattern.ext}

\* os.remove(f): OSError for a file that cannot be deleted.
os_remove(f, locked) == IF f \in locked THEN Raise("OSError") ELSE Return(f)

\* Mutant of remove_each: no try around os.remove, so the first OSError leaves the
\* loop over this pattern's files (the outer except logs it).
RECURSIVE remove_each_abort(_, _, _)
remove_each_abort(files, st, locked) ==
    IF files = {} THEN st
    ELSE LET f == CHOOSE x \in files : TRUE
         IN  IF os_remove(f, locked).raised = "none"
             THEN remove_each_abort(files \ {f},
                      [folder |-> st.folder \ {f}, count |-> st.count + 1], locked)
             ELSE st

\* for f in files_to_delete: try os.remove(f), count it; except OSError: log, go on.
RECURSIVE remove_each(_, _, _)
remove_each(files, st, locked) ==
    IF files = {} THEN st
    ELSE LET f == CHOOSE x \in files : TRUE
             st2 == IF os_remove(f, locked).raised = "none"
                    THEN [folder |-> st.folder \ {f}, count |-> st.count + 1]
                    ELSE st
         IN  remove_each(files \ {f}, st2, locked)

\* One pass of the loop over the patterns: glob, `continue` when nothing matches,
\* else the loop over the files.
cleanup_pattern(pattern, st, locked) ==
    IF glob(st.folder, pattern) = {} THEN st
    ELSE remove_each(glob(st.folder, pattern), st, locked)

\* for pattern in patterns: ...
RECURSIVE cleanup_patterns(_, _, _)
cleanup_patterns(patterns, st, locked) ==
    IF patterns = <<>> THEN st
    ELSE cleanup_patterns(Tail(patterns), cleanup_pattern(Head(patterns), st, locked), locked)

\* What a call did: the folder before and after, the files that resisted, the
\* count logged at the end; it returns None and raises nothing (both excepts only log).
cleanup_done(folder, locked, st) ==
    [called |-> TRUE, raised |-> "none", before |-> folder, locked |-> locked,
     folder |-> st.folder, files_deleted_count |-> st.count]

\* cleanup_static_files(folder_path, patterns)
cleanup_static_files(folder, patterns, locked) ==
    cleanup_done(folder, locked,
                 cleanup_patterns(patterns, [folder |-> folder, count |-> 0], locked))

\* The files of a folder whose names match either pattern.
Matching(folder) ==
    {f \in folder : \/ (f.prefix = "reporte_" /\ f.ext = ".pdf")
                    \/ (f.prefix = "growth_plot_" /\ f.ext = ".png")}

FilesIdle == static = {} /\ cleaned = NotCalled

(***************************************************************************)
(* main.py: strings and numbers of the submitted form                      *)
(***************************************************************************)
\* Texts that are handled character by character are sequences of one-character
\* strings; the other form values are strings.
AsciiUpper == <<"A", "B", "C", "D", "E", "F", "G", "H", "I", "J", "K", "L", "M",
                "N", "O", "P", "Q", "R", "S", "T", "U", "V", "W", "X", "Y", "Z">>
AsciiLower == <<"a", "b", "c", "d", "e", "f", "g", "h", "i", "j", "k", "l", "m",
                "n", "o", "p", "q", "r", "s", "t", "u", "v", "w", "x", "y", "z">>
Whitespace == {" "}

\* str.upper()
upper(str) ==
    [i \in 1..Len(str) |->
        IF str[i] \in Range(AsciiLower)
        THEN AsciiUpper[CHOOSE k \in 1..26 : AsciiLower[k] = str[i]]
        ELSE str[i]]

\* str.strip()
strip(str) ==
    LET solid == {i \in 1..Len(str) : str[i] \notin Whitespace}
    IN  IF solid = {} THEN <<>>
        ELSE SubSeq(str, CHOOSE a \in solid : \A k \in solid : a <= k, MaxOf(solid))

\* str.split(sep)
RECURSIVE split(_, _)
split(str, sep) ==
    LET at == {i \in 1..Len(str) : str[i] = sep}
    IN  IF at = {} THEN <<str>>
        ELSE LET i == CHOOSE a \in at : \A k \in at : a <= k
             IN  <<SubSeq(str, 1, i - 1)>> \o split(SubSeq(str, i + 1, Len(str)), sep)

\* re.match(r"^[A-Z,.^ ]+$", str)
match_tickers(str) ==
    Len(str) >= 1 /\ \A i \in 1..Len(str) : str[i] \in Range(AsciiUpper) \cup {",", ".", "^", " "}

\* re.match(r"^[A-Z]{3}$", str)
match_currency(str) ==
    Len(str) = 3 /\ \A i \in 1..Len(str) : str[i] \in Range(AsciiUpper)

\* Python floats: finite values are kept in hundredths.
Finite(n) == [k |-> "finite", v |-> n]
FloatNaN == [k |-> "nan"]
FloatInf == [k |-> "inf"]

\* The decimal texts submitted, with their values in hundredths.
Numerals ==
    ("-5" :> -500) @@ ("0" :> 0) @@ ("100" :> 10000) @@ ("-0.11" :> -11) @@
    ("-0.1" :> -10) @@ ("0.04" :> 4) @@ ("0.5" :> 50) @@ ("0.9" :> 90)

\* float(text): ValueError for a text that is no float literal; "nan" and "inf" are.
float(text) ==
    IF text \in DOMAIN Numerals THEN Return(Finite(Numerals[text]))
    ELSE IF text = "nan" THEN Return(FloatNaN)
    ELSE IF text = "inf" THEN Return(FloatInf)
    ELSE Raise("ValueError")

\* x <= c, c <= x and x < c for a float x and a finite c in hundredths (every
\* comparison with nan is false).
float_le(x, c) == x.k = "finite" /\ x.v <= c
float_ge(x, c) == (x.k = "finite" /\ c <= x.v) \/ x.k = "inf"
float_lt(x, c) == x.k = "finite" /\ x.v < c

\* A form field: absent from the submission, or present with a text.
Absent == [present |-> FALSE]
Field(text) == [present |-> TRUE, text |-> text]

\* request.form.get(key, default)
form_get(field, default) == IF field.present THEN field.text ELSE default
\* request.form[key]
form_item(field) == IF field.present THEN Return(field.text) ELSE Raise("KeyError")

(***************************************************************************)
(* main.py: optimize(), input validation (lines 109-151)                   *)
(***************************************************************************)
\* Lower bound -0.1 and upper bound 0.5 of the risk-free rate, in hundredths.
RateLow == -10
RateHigh == 50

\* if monto_inversion <= 0: error_messages.append(...)
amount_errors(monto_inversion) ==
    IF float_le(monto_inversion, 0) THEN <<"Investment Amount must be positive.">> ELSE <<>>

\* if not (-0.1 <= risk_free_rate < 0.5): error_messages.append(...)
rate_errors(risk_free_rate) ==
    IF ~(float_ge(risk_free_rate, RateLow) /\ float_lt(risk_free_rate, RateHigh))
    THEN <<"Risk-Free Rate seems outside a reasonable range (-10% to 50%). Input as decimal (e.g., 0.04).">>
    ELSE <<>>

\* Lines 113-120: the messages about tickers_str, and the list tickers.
tickers_list(tickers_str) ==
    LET kept == SelectSeq(split(tickers_str, ","), LAMBDA t : strip(t) # <<>>)
    IN  [i \in 1..Len(kept) |-> upper(strip(kept[i]))]

tickers_errors(tickers_str) ==
    IF tickers_str = <<>> THEN <<"Tickers field is required.">>
    ELSE IF ~match_tickers(upper(tickers_str))
    THEN <<"Invalid characters found in Tickers field. Use only letters, commas, spaces, and ^.">>
    ELSE IF tickers_list(tickers_str) = <<>>
    THEN <<"Tickers field cannot be empty after processing.">>
    ELSE <<>>

\* float(request.form[key]): KeyError for an absent field, ValueError for a text
\* that is no float literal.
float_item(field) ==
    IF form_item(field).raised # "none" THEN form_item(field)
    ELSE float(form_item(field).value)

\* Lines 123-128.
monto_errors(monto_inversion) ==
    IF monto_inversion.raised # "none" THEN <<"Invalid or missing Investment Amount.">>
    ELSE amount_errors(monto_inversion.value)

\* Lines 130-134.
moneda_errors(moneda_usuario) ==
    IF moneda_usuario = <<>> THEN <<"Investment Currency is required.">>
    ELSE IF ~match_currency(moneda_usuario)
    THEN <<"Invalid Investment Currency format (should be 3 letters like USD).">>
    ELSE <<>>

\* `not x` for x = request.form.get(key): None (absent) or the empty string.
falsy(field) == ~field.present \/ field.text = ""

\* Lines 136-140.
indice_errors(indice) ==
    IF falsy(indice) THEN <<"Reference Index selection is required.">> ELSE <<>>
objetivo_errors(objetivo) ==
    IF falsy(objetivo) THEN <<"Optimization Objective selection is required.">> ELSE <<>>

\* Lines 142-147.
risk_free_rate_errors(risk_free_rate) ==
    IF risk_free_rate.raised # "none" THEN <<"Invalid or missing Risk-Free Rate.">>
    ELSE rate_errors(risk_free_rate.value)

\* The validation block (lines 109-147): error_messages, in the order appended.
validate(form) ==
    tickers_errors(strip(form_get(form.tickers, <<>>)))
        \o monto_errors(float_item(form.monto_inversion))
        \o moneda_errors(upper(strip(form_get(form.moneda_usuario, <<>>))))
        \o indice_errors(form.indice)
        \o objetivo_errors(form.objetivo)
        \o risk_free_rate_errors(float_item(form.risk_free_rate))

\* The submissions: every combination of these field contents.
TickerFields ==
    {Absent} \cup {Field(t) : t \in {<<>>, <<" ", ",", " ">>, <<"A">>,
                                     <<" ", "a", ",", "B", " ">>, <<"A", "1">>,
                                     <<"^", "B", ".", "A">>}}
AmountFields == {Absent} \cup {Field(t) : t \in {"abc", "-5", "0", "100", "nan", "inf"}}
CurrencyFields ==
    {Absent} \cup {Field(t) : t \in {<<>>, <<"U", "S">>, <<" ", "u", "s", "d", " ">>,
                                     <<"U", "S", "1">>, <<"U", "S", "D", "D">>}}
IndexFields == {Absent, Field(""), Field("S&P 500")}
ObjectiveFields == {Absent, Field(""), Field("Retorno maximo")}
RateFields ==
    {Absent} \cup {Field(t) : t \in {"abc", "-0.11", "-0.1", "0.04", "0.5", "0.9", "nan"}}

Forms ==
    [tickers : TickerFields, monto_inversion : AmountFields,
     moneda_usuario : CurrencyFields, indice : IndexFields,
     objetivo : ObjectiveFields, risk_free_rate : RateFields]

(***************************************************************************)
(* main.py: optimize(), the pipeline (lines 153-208)                       *)
(***************************************************************************)
\* Exceptions a called component raises: a ValueError, and one that is not.
Exceptions == {"ValueError", "RuntimeError"}

\* Tables extraer_datos returns: nothing; only an incomplete row; an incomplete
\* and a complete row.
FetchedTables ==
    {EmptyDataFrame,
     DataFrame(Tickers, << <<NaN, [na |-> FALSE, v |-> 10]>> >>),
     DataFrame(Tickers, << <<[na |-> FALSE, v |-> 10], NaN>>,
                           <<[na |-> FALSE, v |-> 10], [na |-> FALSE, v |-> 10]>> >>)}

\* The calls of a request that fails validation: none is reached.
NoEnv ==
    [fetched |-> EmptyDataFrame, optimizer |-> "unreached", report |-> "unreached",
     report_file |-> FALSE, simulate |-> "unreached", figure |-> "unreached",
     savefig |-> "unreached", plot_file |-> FALSE]

\* What the calls of one request do, given the table fetched: for the optimizer
\* (constructor and calculate_optimal_weights), generar_reporte_pdf,
\* simulate_portfolio, the plt calls before savefig, and plt.savefig either "ok" or
\* the exception raised, "unreached" for a call the request does not come to.
\* report_file / plot_file: whether the call left a file (always when it succeeds,
\* possibly a partial one when it fails).
EnvsOf(fetched) ==
    LET base == [NoEnv EXCEPT !.fetched = fetched]
        o == [base EXCEPT !.optimizer = "ok"]
        r == [o EXCEPT !.report = "ok", !.report_file = TRUE]
        s == [r EXCEPT !.simulate = "ok"]
        g == [s EXCEPT !.figure = "ok"]
    IN  IF empty(fetched) \/ procesar_datos(fetched).raised # "none" THEN {base}
        ELSE {[base EXCEPT !.optimizer = x] : x \in Exceptions}
             \cup {[o EXCEPT !.report = x, !.report_file = b] : x \in Exceptions, b \in BOOLEAN}
             \cup {[r EXCEPT !.simulate = x] : x \in Exceptions}
             \cup {[s EXCEPT !.figure = x] : x \in Exceptions}
             \cup {[g EXCEPT !.savefig = x, !.plot_file = b] : x \in Exceptions, b \in BOOLEAN}
             \cup {[g EXCEPT !.savefig = "ok", !.plot_file = TRUE]}

Envs == UNION {EnvsOf(fetched) : fetched \in FetchedTables}

\* The try body's outcome: what was returned or raised (and by which call), the
\* calls made and the files left in the folder.
Returned(ran, written) ==
    [raised |-> "none", origin |-> "none", ran |-> ran, written |-> written]
Raised(e, origin, ran, written) ==
    [raised |-> e, origin |-> origin, ran |-> ran, written |-> written]

\* save_portfolio_growth_plot(growth, filename): the plt calls of lines 75-80 are
\* outside the try; an exception of plt.savefig is logged; plt.close() in finally.
save_portfolio_growth_plot(env, filename) ==
    IF env.figure # "ok" THEN [raised |-> env.figure, written |-> {}]
    ELSE [raised |-> "none", written |-> IF env.plot_file THEN {filename} ELSE {}]

\* The calls of the pipeline, in order.
Steps == <<"extraer_datos", "procesar_datos", "PortfolioOptimizer",
           "generar_reporte_pdf", "simulate_portfolio", "save_portfolio_growth_plot">>

\* Lines 166-201, with the cleaned table in hand: optimizer, report, simulation, plot.
pipeline_tail(env, report_written, plot) ==
    IF env.optimizer # "ok"
    THEN Raised(env.optimizer, "PortfolioOptimizer", SubSeq(Steps, 1, 3), {})
    ELSE IF env.report # "ok"
    THEN Raised(env.report, "generar_reporte_pdf", SubSeq(Steps, 1, 4), report_written)
    ELSE IF env.simulate # "ok"
    THEN Raised(env.simulate, "simulate_portfolio", SubSeq(Steps, 1, 5), report_written)
    ELSE IF plot.raised # "none"
    THEN Raised(plot.raised, "save_portfolio_growth_plot", Steps,
                report_written \cup plot.written)
    ELSE Returned(Steps, report_written \cup plot.written)

\* Lines 157-164: the table fetched and what procesar_datos made of it.
pipeline_data(env, cleaned_data, request_id) ==
    IF empty(env.fetched) THEN Raised("ValueError", "optimize", SubSeq(Steps, 1, 1), {})
    ELSE IF cleaned_data.raised # "none"
    THEN Raised(cleaned_data.raised, "procesar_datos", SubSeq(Steps, 1, 2), {})
    ELSE IF empty(cleaned_data.value)
    THEN Raised("ValueError", "optimize", SubSeq(Steps, 1, 2), {})
    ELSE pipeline_tail(env,
                       IF env.report_file THEN {ReportFile(request_id)} ELSE {},
                       save_portfolio_growth_plot(env, PlotFile(request_id)))

\* Lines 157-201: fetch, clean, optimize, report, simulate, plot.
pipeline(env, request_id) == pipeline_data(env, procesar_datos(env.fetched), request_id)

\* A response: render_template(...), status.
Response(status, template, message) ==
    [called |-> TRUE, status |-> status, template |-> template, error_message |-> message]

\* Mutant of except_clauses: the two except clauses in the other order.
except_clauses_swapped(raised, origin) ==
    Response(500, "error.html", [kind |-> "generic"])

\* except ValueError as ve: error.html with str(ve), 400;
\* except Exception: error.html with the fixed message, 500.
except_clauses(raised, origin) ==
    IF raised = "ValueError"
    THEN Response(400, "error.html", [kind |-> "exception_text", origin |-> origin])
    ELSE Response(500, "error.html", [kind |-> "generic"])

\* Mutant of optimize_cleanup: only the report pattern is passed to the cleanup.
optimize_cleanup_reports_only(folder, locked) ==
    cleanup_static_files(folder, SubSeq(Patterns, 1, 1), locked)

\* Line 106: cleanup_static_files(static_folder_path, ["reporte_*.pdf", "growth_plot_*.png"])
optimize_cleanup(folder, locked) == cleanup_static_files(folder, Patterns, locked)

\* What optimize() returns, given what the try body did.
optimize_response(error_messages, try, request_id) ==
    IF error_messages # <<>>
    THEN Response(400, "error.html", [kind |-> "validation", errors |-> error_messages])
    ELSE IF try.raised # "none" THEN except_clauses(try.raised, try.origin)
    ELSE Response(200, "results.html",
                  [kind |-> "none", report_file |-> ReportFile(request_id),
                   plot_file |-> PlotFile(request_id)])

\* The request as a whole: the cleanup, the folder afterwards, the messages, the
\* calls made, the files written, the response.
optimize_done(cleanup, error_messages, try, request_id) ==
    [cleanup |-> cleanup,
     folder |-> cleanup.folder \cup try.written,
     error_messages |-> error_messages,
     ran |-> try.ran, written |-> try.written,
     response |-> optimize_response(error_messages, try, request_id)]

\* Lines 109-201: the try body; the pipeline runs only when no message was appended.
optimize_try(cleanup, error_messages, env, request_id) ==
    optimize_done(cleanup, error_messages,
                  IF error_messages # <<>> THEN Returned(<<>>, {})
                  ELSE pipeline(env, request_id),
                  request_id)

\* optimize(): cleanup, validation, pipeline, the except clauses.
optimize(form, env, folder, locked, request_id) ==
    optimize_try(optimize_cleanup(folder, locked), validate(form), env, request_id)

(***************************************************************************)
(* app.py: the basic entry point, optimize() (lines 48-113)                *)
(***************************************************************************)
\* data.isnull().all().all(): every cell of the table is absent.
isnull_all_all(df) ==
    \A i \in 1..len(df) : \A j \in 1..Len(df.cols) : df.rows[i][j].na

\* Tables extraer_datos returns to the basic entry point: those above, and a table
\* whose only row has no value at all.
BasicFetchedTables == FetchedTables \cup {DataFrame(Tickers, << <<NaN, NaN>> >>)}

BasicEnvs == UNION {EnvsOf(fetched) : fetched \in BasicFetchedTables}

\* Outcomes of the rate request of line 65: no connection, a body with a numeric
\* MXN rate, a body whose MXN rate is null.
BasicHttpOutcomes ==
    {[net |-> "ConnectionError"],
     [net |-> "ok", json |-> TRUE,
      value |-> JsonObject([k \in {"rates"} |-> JsonObject([c \in {"MXN"} |-> JsonNumber(1850)])])],
     [net |-> "ok", json |-> TRUE,
      value |-> JsonObject([k \in {"rates"} |-> JsonObject([c \in {"MXN"} |-> JsonNull])])]}

\* Lines 52-58: the form is read with request.form[key], the amount through
\* float(); the first failure is raised.
app_form(form) ==
    IF form_item(form.tickers).raised # "none" THEN form_item(form.tickers)
    ELSE IF float_item(form.monto_inversion).raised # "none"
    THEN float_item(form.monto_inversion)
    ELSE IF form_item(form.moneda_usuario).raised # "none" THEN form_item(form.moneda_usuario)
    ELSE IF form_item(form.indice).raised # "none" THEN form_item(form.indice)
    ELSE IF form_item(form.objetivo).raised # "none" THEN form_item(form.objetivo)
    ELSE Return([tickers |-> [i \in 1..Len(split(form.tickers.text, ",")) |->
                                 upper(strip(split(form.tickers.text, ",")[i]))],
                 monto_inversion |-> float_item(form.monto_inversion).value,
                 moneda_usuario |-> upper(form.moneda_usuario.text),
                 indice |-> form.indice.text, objetivo |-> form.objetivo.text])

\* save_portfolio_growth_plot of app.py (lines 25-37): no call is guarded.
app_save_portfolio_growth_plot(env, filename) ==
    IF env.figure # "ok" THEN [raised |-> env.figure, written |-> {}]
    ELSE IF env.savefig # "ok"
    THEN [raised |-> env.savefig, written |-> IF env.plot_file THEN {filename} ELSE {}]
    ELSE [raised |-> "none", written |-> {filename}]

\* Lines 67-108: fetch, the two emptiness checks around procesar_datos, then the
\* optimizer, the report, the simulation and the plot.
app_pipeline_data(env, cleaned_data, request_id) ==
    IF empty(env.fetched) \/ isnull_all_all(env.fetched)
    THEN Raised("ValueError", "optimize", SubSeq(Steps, 1, 1), {})
    ELSE IF cleaned_data.raised # "none"
    THEN Raised(cleaned_data.raised, "procesar_datos", SubSeq(Steps, 1, 2), {})
    ELSE IF empty(cleaned_data.value)
    THEN Raised("ValueError", "optimize", SubSeq(Steps, 1, 2), {})
    ELSE pipeline_tail(env,
                       IF env.report_file THEN {ReportFile(request_id)} ELSE {},
                       app_save_portfolio_growth_plot(env, PlotFile(request_id)))

app_pipeline(env, request_id) ==
    app_pipeline_data(env, procesar_datos(env.fetched), request_id)

\* Mutant of app_except: the except clauses of the hardened entry point.
app_except_as_hardened(raised, origin) == except_clauses(raised, origin)

\* Lines 110-113: except Exception as e: error.html with str(e), 500.
app_except(raised, origin) ==
    Response(500, "error.html", [kind |-> "exception_text", origin |-> origin])

\* What the basic optimize() returns, and the folder it leaves: nothing is removed.
app_optimize_done(folder, try, risk_free_rate, request_id) ==
    [folder |-> folder \cup try.written,
     ran |-> try.ran, written |-> try.written,
     raised |-> try.raised, origin |-> try.origin,
     risk_free_rate |-> risk_free_rate,
     response |-> IF try.raised # "none" THEN app_except(try.raised, try.origin)
                  ELSE Response(200, "results.html",
                                [kind |-> "none", report_file |-> ReportFile(request_id),
                                 plot_file |-> PlotFile(request_id)])]

\* Lines 51-108: the try body.
app_optimize_try(parsed, env, http, folder, request_id) ==
    IF parsed.raised # "none"
    THEN app_optimize_done(folder, Raised(parsed.raised, "request.form", <<>>, {}),
                           NotCalled, request_id)
    ELSE app_optimize_done(folder, app_pipeline(env, request_id),
                           get_risk_free_rate(http), request_id)

\* optimize() of app.py.
app_optimize(form, env, http, folder, request_id) ==
    app_optimize_try(app_form(form), env, http, folder, request_id)

WebIdle ==
    /\ handled = 0
    /\ request = NotCalled
    /\ response = NotCalled
    /\ previous = NotCalled

(***************************************************************************)
(* SpecData: the data_processing functions applied to every table          *)
(***************************************************************************)
InitData ==
    /\ data \in DataArgs
    /\ checked = NotCalled
    /\ processed = NotCalled
    /\ RateIdle /\ FilesIdle /\ WebIdle

CallQualityChecks ==
    /\ checked' = perform_data_quality_checks(data)
    /\ UNCHANGED <<data, processed, rateVars, fileVars, webVars>>

CallProcesarDatos ==
    /\ processed' = procesar_datos(data)
    /\ UNCHANGED <<data, checked, rateVars, fileVars, webVars>>

NextData == CallQualityChecks \/ CallProcesarDatos

SpecData == InitData /\ [][NextData]_vars

(***************************************************************************)
(* Properties of the data_processing functions (checked under SpecData)    *)
(***************************************************************************)
\* The rows of a table that have a value in every column.
CompleteRows(df) == {i \in 1..len(df) : \A j \in 1..Len(df.cols) : ~df.rows[i][j].na}

\* C8: procesar_datos on a non-empty table returns exactly the input rows that have
\* a value in every column, in their original order and under the same columns (so
\* the result has no absent value); when no row is complete it raises instead of
\* returning; for None or an empty table it returns an empty table without raising.
ProcesarDatosKeepsCompleteRows ==
    processed.called =>
        IF data = None \/ empty(data)
        THEN processed.raised = "none" /\ empty(processed.value)
        ELSE LET complete == CompleteRows(data)
                 rank(i) == Cardinality({k \in complete : k <= i})
             IN  IF complete = {}
                 THEN processed.raised = "ValueError"
                 ELSE /\ processed.raised = "none"
                      /\ processed.value.cols = data.cols
                      /\ Len(processed.value.rows) = Cardinality(complete)
                      /\ \A i \in complete : processed.value.rows[rank(i)] = data.rows[i]
                      /\ \A r \in 1..Len(processed.value.rows) :
                            \A j \in 1..Len(data.cols) : ~processed.value.rows[r][j].na

\* Witness of C8: a three-row table, two columns, whose middle row is incomplete
\* and whose first and last rows differ, was cleaned to its two complete rows.
ProcesarDatosDroppedMiddleRow ==
    /\ processed.called /\ processed.raised = "none"
    /\ data # None /\ Len(data.cols) = 2 /\ len(data) = 3
    /\ CompleteRows(data) = {1, 3}
    /\ data.rows[1] # data.rows[3]
    /\ Len(processed.value.rows) = 2

\* The missing-data messages a call emitted for the column labelled t.
MissingIssuesFor(t) ==
    {k \in 1..Len(checked.value.quality_issues) :
        /\ checked.value.quality_issues[k].kind = "missing"
        /\ checked.value.quality_issues[k].ticker = t}

\* C9: on a non-empty table perform_data_quality_checks emits exactly one
\* missing-data message for each column with strictly more than half of its rows
\* absent, none for a column with half or fewer absent, and returns the table as given.
MissingDataIssuesExact ==
    (checked.called /\ data # None /\ ~empty(data)) =>
        /\ checked.raised = "none"
        /\ checked.value.df = data
        /\ \A j \in 1..Len(data.cols) :
              Cardinality(MissingIssuesFor(data.cols[j])) =
                  IF 2 * isnull_sum(data, j) > len(data) THEN 1 ELSE 0

\* Witness of C9: one column exactly half absent drew no message while the other,
\* entirely absent, drew one.
HalfAbsentColumnNotFlagged ==
    /\ checked.called /\ data # None /\ Len(data.cols) = 2 /\ len(data) = 2
    /\ isnull_sum(data, 1) = 1 /\ isnull_sum(data, 2) = 2
    /\ MissingIssuesFor(data.cols[1]) = {}
    /\ Cardinality(MissingIssuesFor(data.cols[2])) = 1

(***************************************************************************)
(* SpecRate: get_risk_free_rate against every response of the endpoint     *)
(***************************************************************************)
DataIdle == data = None /\ checked = NotCalled /\ processed = NotCalled

InitRate ==
    /\ body \in HttpOutcomes
    /\ rate = NotCalled
    /\ DataIdle /\ FilesIdle /\ WebIdle

CallGetRiskFreeRate ==
    /\ rate' = get_risk_free_rate(body)
    /\ UNCHANGED <<body, dataVars, fileVars, webVars>>

NextRate == CallGetRiskFreeRate

SpecRate == InitRate /\ [][NextRate]_vars

\* The body is a JSON object whose "rates" member is a map holding a number under MXN.
HasNumericMXN ==
    /\ body.net = "ok" /\ body.json /\ body.value.t = "object"
    /\ "rates" \in DOMAIN body.value.m
    /\ body.value.m["rates"].t = "object"
    /\ "MXN" \in DOMAIN body.value.m["rates"].m
    /\ body.value.m["rates"].m["MXN"].t = "number"

\* C10 (as claimed): get_risk_free_rate never raises and always returns a number:
\* the MXN entry of the rates map when there is one, and the default 0.05 in every
\* other case, among them an MXN entry that is not a number.
RateIsAlwaysADecimal ==
    rate.called =>
        /\ rate.raised = "none"
        /\ rate.value.t = "number"
        /\ rate.value = IF HasNumericMXN THEN body.value.m["rates"].m["MXN"]
                        ELSE JsonNumber(DefaultRate)

\* C10 (what the code does hold): the call never raises, and answers the default
\* whenever the body has no MXN entry under a rates map.
RateNeverRaises ==
    rate.called =>
        /\ rate.raised = "none"
        /\ (~(/\ body.net = "ok" /\ body.json /\ body.value.t = "object"
              /\ "rates" \in DOMAIN body.value.m
              /\ body.value.m["rates"].t = "object"
              /\ "MXN" \in DOMAIN body.value.m["rates"].m)
                => rate.value = JsonNumber(DefaultRate))

(***************************************************************************)
(* SpecCleanup: cleanup_static_files on every folder content               *)
(***************************************************************************)
InitCleanup ==
    /\ static \in SUBSET (ArtifactFiles \cup OtherFiles)
    /\ cleaned = NotCalled
    /\ DataIdle /\ RateIdle /\ WebIdle

\* One call with the patterns of optimize(); any of the files may resist deletion.
CallCleanup ==
    \E locked \in SUBSET static :
        /\ cleaned' = cleanup_static_files(static, Patterns, locked)
        /\ static' = cleaned'.folder
        /\ UNCHANGED <<dataVars, rateVars, webVars>>

NextCleanup == CallCleanup

SpecCleanup == InitCleanup /\ [][NextCleanup]_vars

\* C7: cleanup_static_files never raises; every matching file whose deletion does
\* not fail is deleted, whatever other deletions fail, nothing else is touched, and
\* the reported total is the number of files deleted; with no matching file it
\* deletes nothing and reports 0.
CleanupSkipsFailedDeletions ==
    cleaned.called =>
        /\ cleaned.raised = "none"
        /\ static = cleaned.before \ (Matching(cleaned.before) \ cleaned.locked)
        /\ cleaned.files_deleted_count =
               Cardinality(Matching(cleaned.before) \ cleaned.locked)
        /\ (Matching(cleaned.before) = {} =>
               static = cleaned.before /\ cleaned.files_deleted_count = 0)

\* Witness of C7: one report could not be deleted, and the other matching files,
\* a report and a chart among them, were deleted and counted.
CleanupPastALockedFile ==
    /\ cleaned.called
    /\ Cardinality(Matching(cleaned.before) \cap cleaned.locked) = 1
    /\ \E f \in cleaned.before \ static : f.ext = ".pdf"
    /\ \E f \in cleaned.before \ static : f.ext = ".png"
    /\ cleaned.files_deleted_count >= 2
    /\ Matching(static) = Matching(cleaned.before) \cap cleaned.locked

(***************************************************************************)
(* Spec: the hardened entry point handling requests one at a time          *)
(* SpecForm: one request, over every submission                            *)
(***************************************************************************)
\* A submission that passes validation.
GoodForm ==
    [tickers |-> Field(<<" ", "a", ",", "B", " ">>), monto_inversion |-> Field("100"),
     moneda_usuario |-> Field(<<" ", "u", "s", "d", " ">>), indice |-> Field("S&P 500"),
     objetivo |-> Field("Retorno maximo"), risk_free_rate |-> Field("0.04")]

\* The submissions of Spec: the good one, and two that fail validation.
WebForms ==
    {GoodForm,
     [GoodForm EXCEPT !.risk_free_rate = Field("0.9")],
     [GoodForm EXCEPT !.tickers = Field(<<>>), !.monto_inversion = Field("-5")]}

\* The files that resist deletion during one request: none, or one matching file.
Locked(folder) == {{}} \cup {{f} : f \in Matching(folder)}

\* POST /optimize with a form among `forms`: the whole handler. The request draws
\* a fresh uuid; a matching file of the folder may resist deletion.
Optimize(forms) ==
    \E form \in forms, locked \in Locked(static) :
      \E env \in IF validate(form) = <<>> THEN Envs ELSE {NoEnv} :
        /\ \E r \in {optimize(form, env, static, locked, handled + 1)} :
               /\ static' = r.folder
               /\ cleaned' = r.cleanup
               /\ request' = [called |-> TRUE, form |-> form, env |-> env,
                              error_messages |-> r.error_messages, ran |-> r.ran,
                              written |-> r.written]
               /\ response' = r.response
               /\ previous' = IF handled = 0 THEN NotCalled
                              ELSE [called |-> TRUE, status |-> response.status,
                                    written |-> request.written]
        /\ handled' = handled + 1
        /\ UNCHANGED <<dataVars, rateVars>>

\* The folder at startup: created empty, or holding files of an earlier run.
Init ==
    /\ static \in {{}, {ReportFile(0), PlotFile(0)} \cup OtherFiles}
    /\ cleaned = NotCalled
    /\ WebIdle /\ DataIdle /\ RateIdle

PostOptimize == handled < MaxRequests /\ Optimize(WebForms)

Next == PostOptimize

Spec == Init /\ [][Next]_vars

InitForm ==
    /\ static = {}
    /\ cleaned = NotCalled
    /\ WebIdle /\ DataIdle /\ RateIdle

SubmitForm == handled = 0 /\ Optimize(Forms)

NextForm == SubmitForm

SpecForm == InitForm /\ [][NextForm]_vars

(***************************************************************************)
(* Properties of the hardened entry point                                  *)
(***************************************************************************)
\* The rule of each validated field, as the specification words it.
Letters == Range(AsciiUpper) \cup Range(AsciiLower)

\* tickers: present, not blank, only letters, commas, dots, carets and spaces, and
\* at least one ticker between the commas.
TickersRuleOk(form) ==
    /\ form.tickers.present
    /\ \A i \in 1..Len(form.tickers.text) :
          form.tickers.text[i] \in Letters \cup {",", ".", "^", " "}
    /\ \E i \in 1..Len(form.tickers.text) : form.tickers.text[i] \notin {",", " "}

\* investment amount: present, a number, strictly positive.
AmountRuleOk(form) ==
    /\ form.monto_inversion.present
    /\ \/ /\ form.monto_inversion.text \in DOMAIN Numerals
          /\ Numerals[form.monto_inversion.text] > 0
       \/ form.monto_inversion.text = "inf"

\* currency: present, exactly three letters once trimmed.
CurrencyRuleOk(form) ==
    /\ form.moneda_usuario.present
    /\ Len(strip(form.moneda_usuario.text)) = 3
    /\ \A c \in Range(strip(form.moneda_usuario.text)) : c \in Letters

\* reference index, objective: a non-empty selection.
IndexRuleOk(form) == form.indice.present /\ form.indice.text # ""
ObjectiveRuleOk(form) == form.objetivo.present /\ form.objetivo.text # ""

\* risk-free rate: present, a number, within [-0.10, 0.50).
RateRuleOk(form) ==
    /\ form.risk_free_rate.present
    /\ form.risk_free_rate.text \in DOMAIN Numerals
    /\ -10 <= Numerals[form.risk_free_rate.text]
    /\ Numerals[form.risk_free_rate.text] < 50

FieldNames == {"tickers", "monto_inversion", "moneda_usuario", "indice", "objetivo",
               "risk_free_rate"}

\* The fields of a form that violate their rule.
Violations(form) ==
    {n \in FieldNames :
        \/ n = "tickers" /\ ~TickersRuleOk(form)
        \/ n = "monto_inversion" /\ ~AmountRuleOk(form)
        \/ n = "moneda_usuario" /\ ~CurrencyRuleOk(form)
        \/ n = "indice" /\ ~IndexRuleOk(form)
        \/ n = "objetivo" /\ ~ObjectiveRuleOk(form)
        \/ n = "risk_free_rate" /\ ~RateRuleOk(form)}

\* The field a message of the error list is about.
MessageField(msg) ==
    CASE msg \in {"Tickers field is required.",
                  "Invalid characters found in Tickers field. Use only letters, commas, spaces, and ^.",
                  "Tickers field cannot be empty after processing."} -> "tickers"
      [] msg \in {"Invalid or missing Investment Amount.",
                  "Investment Amount must be positive."} -> "monto_inversion"
      [] msg \in {"Investment Currency is required.",
                  "Invalid Investment Currency format (should be 3 letters like USD)."}
            -> "moneda_usuario"
      [] msg = "Reference Index selection is required." -> "indice"
      [] msg = "Optimization Objective selection is required." -> "objetivo"
      [] OTHER -> "risk_free_rate"

\* The positions of the last request's error list that are about field n.
MessagesAbout(n) ==
    {k \in 1..Len(request.error_messages) : MessageField(request.error_messages[k]) = n}

\* C1: with requests handled one at a time and the deletions succeeding, the
\* folder holds no report or chart other than those the last request wrote, so
\* at most one of each.
OnlyLastRequestsArtifactsRemain ==
    (request.called /\ cleaned.locked \cap Matching(cleaned.before) = {}) =>
        /\ Matching(static) \subseteq request.written
        /\ Cardinality({f \in static : f.prefix = "reporte_" /\ f.ext = ".pdf"}) <= 1
        /\ Cardinality({f \in static : f.prefix = "growth_plot_" /\ f.ext = ".png"}) <= 1

\* Witness of C1: two consecutive requests answered 200; the first one's report and
\* chart are gone and exactly the second one's remain.
SecondSuccessReplacedFirst ==
    /\ handled = 2 /\ previous.called
    /\ previous.status = 200 /\ response.status = 200
    /\ Cardinality(previous.written) = 2 /\ previous.written \cap static = {}
    /\ Cardinality(request.written) = 2 /\ Matching(static) = request.written

\* C2 (as claimed): whenever a field violates its rule the response is the error
\* view with status 400 and no step of the pipeline runs and no file is written.
InvalidInputNeverReachesPipeline ==
    (request.called /\ Violations(request.form) # {}) =>
        /\ response.status = 400 /\ response.template = "error.html"
        /\ request.ran = <<>>
        /\ request.written = {}

\* C2, for amounts other than "nan": holds of the code.
InvalidInputNeverReachesPipelineButNaN ==
    (/\ request.called /\ Violations(request.form) # {}
     /\ request.form.monto_inversion # Field("nan")) =>
        /\ response.status = 400 /\ response.template = "error.html"
        /\ request.ran = <<>>
        /\ request.written = {}

\* C3 (as claimed): the error list holds exactly one message for each field that
\* violates its rule and none for a field that satisfies it.
OneMessagePerViolatedField ==
    request.called =>
        \A n \in FieldNames :
            Cardinality(MessagesAbout(n)) = IF n \in Violations(request.form) THEN 1 ELSE 0

\* C3, for amounts other than "nan": holds of the code.
OneMessagePerViolatedFieldButNaN ==
    (request.called /\ request.form.monto_inversion # Field("nan")) =>
        \A n \in FieldNames :
            Cardinality(MessagesAbout(n)) = IF n \in Violations(request.form) THEN 1 ELSE 0

\* The last request passed every rule and one of the optimizer, the report
\* generator, the simulation or the plotting calls raised.
LaterStepRaised ==
    /\ request.called /\ Violations(request.form) = {}
    /\ \/ request.env.optimizer \in Exceptions
       \/ request.env.report \in Exceptions
       \/ request.env.simulate \in Exceptions
       \/ request.env.figure \in Exceptions

\* C4 (as claimed): an exception of the optimizer, the report generator, the
\* simulation or the chart step, whatever its type, is answered with status 500 and
\* the fixed message, never with the text of the exception.
LaterFailuresAnswered500 ==
    LaterStepRaised =>
        /\ response.status = 500
        /\ response.error_message.kind = "generic"

\* C5: with valid inputs, an empty fetch result, or a table of which cleaning
\* leaves no row, is answered with the error view and status 400; the optimizer is
\* not called and no file is written.
NoDataAnswered400 ==
    (/\ request.called /\ Violations(request.form) = {}
     /\ (empty(request.env.fetched) \/ CompleteRows(request.env.fetched) = {})) =>
        /\ response.status = 400 /\ response.template = "error.html"
        /\ \A k \in 1..Len(request.ran) : request.ran[k] \notin
               {"PortfolioOptimizer", "generar_reporte_pdf", "simulate_portfolio",
                "save_portfolio_growth_plot"}
        /\ request.written = {}

\* Witness of C5: a fetched table with a row, none complete, went through
\* procesar_datos and the request ended 400.
CleaningLeftNothing ==
    /\ request.called /\ Violations(request.form) = {}
    /\ ~empty(request.env.fetched) /\ CompleteRows(request.env.fetched) = {}
    /\ request.ran = <<"extraer_datos", "procesar_datos">>
    /\ response.status = 400

\* C6 (as claimed): once the report is written, a failure of the simulation, of
\* the figure and plot calls or of saving the image does not abort the request,
\* which returns the results view with status 200; a failure of the report
\* generator never yields 200.
ChartIsBestEffort ==
    (request.called /\ Violations(request.form) = {}) =>
        /\ (/\ request.env.report = "ok"
            /\ \/ request.env.simulate \in Exceptions
               \/ request.env.figure \in Exceptions
               \/ request.env.savefig \in Exceptions)
               => (response.status = 200 /\ response.template = "results.html")
        /\ (request.env.report \in Exceptions => response.status # 200)

\* C6, for a failure of plt.savefig alone: holds of the code.
SavefigFailureIsTolerated ==
    (request.called /\ Violations(request.form) = {}) =>
        /\ (request.env.savefig \in Exceptions
               => (response.status = 200 /\ response.template = "results.html"))
        /\ (request.env.report \in Exceptions => response.status # 200)

(***************************************************************************)
(* SpecBasic: the basic entry point handling requests one at a time        *)
(***************************************************************************)
\* The submissions to the basic form, which has no rate field: a complete one, one
\* with each field missing in turn, and one with an amount that is no number.
BasicGoodForm == [GoodForm EXCEPT !.risk_free_rate = Absent]

BasicForms ==
    {BasicGoodForm,
     [BasicGoodForm EXCEPT !.tickers = Absent],
     [BasicGoodForm EXCEPT !.monto_inversion = Absent],
     [BasicGoodForm EXCEPT !.monto_inversion = Field("abc")],
     [BasicGoodForm EXCEPT !.moneda_usuario = Absent],
     [BasicGoodForm EXCEPT !.indice = Absent],
     [BasicGoodForm EXCEPT !.objetivo = Absent]}

\* POST /optimize of app.py: the whole handler, with a fresh uuid.
BasicOptimize ==
    /\ handled < MaxRequests
    /\ \E form \in BasicForms :
         \E env \in IF app_form(form).raised = "none" THEN BasicEnvs ELSE {NoEnv},
            http \in IF app_form(form).raised = "none" THEN BasicHttpOutcomes
                     ELSE {[net |-> "unreached"]} :
           \E r \in {app_optimize(form, env, http, static, handled + 1)} :
               /\ static' = r.folder
               /\ request' = [called |-> TRUE, form |-> form, env |-> env, http |-> http,
                              before |-> static, ran |-> r.ran, written |-> r.written,
                              raised |-> r.raised, origin |-> r.origin,
                              risk_free_rate |-> r.risk_free_rate]
               /\ response' = r.response
    /\ handled' = handled + 1
    /\ UNCHANGED <<previous, cleaned, dataVars, rateVars>>

InitBasic ==
    /\ static \in {{}, {ReportFile(0), PlotFile(0)} \cup OtherFiles}
    /\ cleaned = NotCalled
    /\ WebIdle /\ DataIdle /\ RateIdle

NextBasic == BasicOptimize

SpecBasic == InitBasic /\ [][NextBasic]_vars

\* A failure in the flow of the last request: a missing field, an amount that is
\* no number, no data fetched, no row left by the cleaning, or an exception of the
\* optimizer, the report, the simulation or the chart.
BasicFailure ==
    \/ \E n \in {"tickers", "monto_inversion", "moneda_usuario", "indice", "objetivo"} :
          ~request.form[n].present
    \/ request.form.monto_inversion.text \notin DOMAIN Numerals \cup {"nan", "inf"}
    \/ empty(request.env.fetched)
    \/ CompleteRows(request.env.fetched) = {}
    \/ request.env.optimizer \in Exceptions
    \/ request.env.report \in Exceptions
    \/ request.env.simulate \in Exceptions
    \/ request.env.figure \in Exceptions
    \/ request.env.savefig \in Exceptions

\* C11: the basic entry point answers every failure in the flow with the error view
\* and status 500 and every other request with the results view and status 200
\* (never 400), and every file that was in the output directory before a request,
\* successful or failed, is still there after it.
BasicAnswers200Or500AndKeepsFiles ==
    request.called =>
        /\ response.called /\ response.status \in {200, 500}
        /\ BasicFailure => (response.status = 500 /\ response.template = "error.html")
        /\ ~BasicFailure => (response.status = 200 /\ response.template = "results.html")
        /\ request.before \subseteq static

\* Witness of C11: after a first request that wrote its report and chart, a second
\* one failed with a ValueError while saving the chart and was answered 500; the
\* files of the first request and the report of the second are all in the folder.
BasicFailedRequestKeptFiles ==
    /\ handled = 2 /\ request.called
    /\ request.env.savefig = "ValueError" /\ response.status = 500
    /\ {ReportFile(1), PlotFile(1), ReportFile(2)} \subseteq static
    /\ {ReportFile(1), PlotFile(1)} \subseteq request.before

(***************************************************************************)
(* The ticker character class of the hardened entry point                  *)
(***************************************************************************)
Digits == {"0", "1", "2", "3", "4", "5", "6", "7", "8", "9"}

\* The tickers of a submitted list: the pieces between the commas, trimmed.
SubmittedTickers(text) == [i \in 1..Len(split(text, ",")) |-> strip(split(text, ",")[i])]

\* A comma-separated list whose tickers are non-empty and consist only of letters,
\* digits, dots and carets.
TickerClassOk(form) ==
    /\ form.tickers.present
    /\ \A i \in 1..Len(SubmittedTickers(form.tickers.text)) :
          /\ SubmittedTickers(form.tickers.text)[i] # <<>>
          /\ \A c \in Range(SubmittedTickers(form.tickers.text)[i]) :
                c \in Letters \cup Digits \cup {".", "^"}

\* C12 (as claimed): a ticker list whose tickers consist only of letters, digits,
\* dots and carets draws no message about the tickers field.
TickerClassAccepted ==
    (request.called /\ TickerClassOk(request.form)) => MessagesAbout("tickers") = {}

\* C12, for lists without a digit: holds of the code.
TickerClassAcceptedButDigits ==
    (/\ request.called /\ TickerClassOk(request.form)
     /\ Range(request.form.tickers.text) \cap Digits = {}) => MessagesAbout("tickers") = {}

(***************************************************************************)
(* SpecConcurrent: hardened requests served by concurrent threads on one   *)
(* output folder. request[p] is the thread of request p: its position in   *)
(* optimize(), the files its cleanup still has to remove, its form, the    *)
(* outcomes of its calls, and the files of its own that were in the folder *)
(* when it returned. response[p] is what it returned.                      *)
(***************************************************************************)
Requests == 1..MaxRequests

\* The submissions and call outcomes of the concurrent requests: a valid form
\* whose pipeline succeeds, loses the chart to a savefig error, fails in the report
\* generator or fetches nothing; and a form that fails validation.
ConcurrentCases ==
    {[form |-> GoodForm, env |-> env] :
        env \in {e \in Envs : \/ e.savefig = "ok"
                              \/ e.savefig = "RuntimeError" /\ ~e.plot_file
                              \/ e.report = "RuntimeError" /\ ~e.report_file
                              \/ empty(e.fetched)}}
    \cup {[form |-> [GoodForm EXCEPT !.risk_free_rate = Field("0.9")], env |-> NoEnv]}

\* Position after the files of pattern k are dealt with.
after_pattern(k) == IF k < Len(Patterns) THEN [pc |-> "glob", k |-> k + 1]
                    ELSE [pc |-> "validate", k |-> 0]

\* Line 50 of cleanup_static_files (from line 106 of optimize): glob one pattern;
\* `continue` when nothing matches.
ConcGlob(p) ==
    /\ request[p].pc = "glob"
    /\ \E files \in {glob(static, Patterns[request[p].k])} :
         request' = [request EXCEPT ![p] =
            IF files = {} THEN [@ EXCEPT !.pc = after_pattern(request[p].k).pc, !.k = after_pattern(request[p].k).k]
            ELSE [@ EXCEPT !.pc = "remove", !.todo = files]]
    /\ UNCHANGED <<static, cleaned, handled, response, previous, dataVars, rateVars>>

\* Lines 58-64: os.remove of the next listed file; the OSError for a file that
\* another thread removed meanwhile is logged and the loop goes on.
ConcRemove(p) ==
    /\ request[p].pc = "remove"
    /\ \E f \in request[p].todo :
         /\ static' = IF os_remove(f, {f} \ static).raised = "none" THEN static \ {f}
                      ELSE static
         /\ request' = [request EXCEPT ![p] =
               IF @.todo = {f}
               THEN [@ EXCEPT !.pc = after_pattern(request[p].k).pc, !.k = after_pattern(request[p].k).k,
                              !.todo = {}]
               ELSE [@ EXCEPT !.todo = @ \ {f}]]
    /\ UNCHANGED <<cleaned, handled, response, previous, dataVars, rateVars>>

\* Lines 109-168: validation, fetch, cleaning and the optimizer, none of which
\* touches the folder; a request that fails there returns its error response.
ConcValidate(p) ==
    /\ request[p].pc = "validate"
    /\ \E c \in ConcurrentCases :
         \E r \in {optimize_try([folder |-> static], validate(c.form), c.env, p)} :
           IF r.response.status # 200 /\ r.ran \in {SubSeq(Steps, 1, n) : n \in 0..3}
           THEN /\ request' = [request EXCEPT ![p] =
                       [@ EXCEPT !.pc = "done", !.form = c.form, !.env = c.env]]
                /\ response' = [response EXCEPT ![p] = r.response]
                /\ handled' = handled + 1
           ELSE /\ request' = [request EXCEPT ![p] =
                       [@ EXCEPT !.pc = "report", !.form = c.form, !.env = c.env]]
                /\ UNCHANGED <<response, handled>>
    /\ UNCHANGED <<static, cleaned, previous, dataVars, rateVars>>

\* Lines 175-181: the uuid is drawn and generar_reporte_pdf writes the report, or
\* raises and the request returns its error response.
ConcReport(p) ==
    /\ request[p].pc = "report"
    /\ \E r \in {optimize_try([folder |-> static], <<>>, request[p].env, p)} :
         /\ static' = static \cup (r.written \cap {ReportFile(p)})
         /\ IF request[p].env.report # "ok"
            THEN /\ request' = [request EXCEPT ![p] = [@ EXCEPT !.pc = "done"]]
                 /\ response' = [response EXCEPT ![p] = r.response]
                 /\ handled' = handled + 1
            ELSE /\ request' = [request EXCEPT ![p] = [@ EXCEPT !.pc = "plot"]]
                 /\ UNCHANGED <<response, handled>>
    /\ UNCHANGED <<cleaned, previous, dataVars, rateVars>>

\* Lines 185-186: simulate_portfolio and save_portfolio_growth_plot.
ConcPlot(p) ==
    /\ request[p].pc = "plot"
    /\ \E r \in {optimize_try([folder |-> static], <<>>, request[p].env, p)} :
         /\ static' = static \cup (r.written \cap {PlotFile(p)})
         /\ IF r.response.status # 200
            THEN /\ request' = [request EXCEPT ![p] = [@ EXCEPT !.pc = "done"]]
                 /\ response' = [response EXCEPT ![p] = r.response]
                 /\ handled' = handled + 1
            ELSE /\ request' = [request EXCEPT ![p] =
                        [@ EXCEPT !.pc = "return", !.written = r.written]]
                 /\ UNCHANGED <<response, handled>>
    /\ UNCHANGED <<cleaned, previous, dataVars, rateVars>>

\* Lines 189-201: the results view is rendered and returned with status 200.
ConcReturn(p) ==
    /\ request[p].pc = "return"
    /\ \E r \in {optimize_try([folder |-> static], <<>>, request[p].env, p)} :
         /\ request' = [request EXCEPT ![p] =
               [@ EXCEPT !.pc = "done", !.present = request[p].written \cap static]]
         /\ response' = [response EXCEPT ![p] = r.response]
    /\ handled' = handled + 1
    /\ UNCHANGED <<static, cleaned, previous, dataVars, rateVars>>

InitConcurrent ==
    /\ static \in {{}, {ReportFile(0), PlotFile(0)}}
    /\ cleaned = NotCalled
    /\ handled = 0
    /\ request = [p \in Requests |->
                    [pc |-> "glob", k |-> 1, todo |-> {}, form |-> GoodForm, env |-> NoEnv,
                     written |-> {}, present |-> {}]]
    /\ response = [p \in Requests |-> NotCalled]
    /\ previous = NotCalled
    /\ DataIdle /\ RateIdle

NextConcurrent ==
    \E p \in Requests :
        \/ ConcGlob(p)
        \/ ConcRemove(p)
        \/ ConcValidate(p)
        \/ ConcReport(p)
        \/ ConcPlot(p)
        \/ ConcReturn(p)

SpecConcurrent == InitConcurrent /\ [][NextConcurrent]_vars

\* C13 (as claimed): whatever the interleaving, the report and chart a request
\* wrote are in the folder at the moment it returns its 200 results view.
OwnArtifactsPresentAtReturn ==
    \A p \in Requests :
        (request[p].pc = "done" /\ response[p].called /\ response[p].status = 200) =>
            request[p].written \subseteq request[p].present

(***************************************************************************)
(* SpecFetch: extraer_datos on every download. `data` holds the call: the  *)
(* tickers and what yf.download produced; `processed` what was returned.   *)
(***************************************************************************)
InitFetch ==
    /\ \E tickers \in TickerArgs : \E download \in Downloads(tickers) :
          data = [none |-> FALSE, tickers |-> tickers, download |-> download]
    /\ checked = NotCalled
    /\ processed = NotCalled
    /\ RateIdle /\ FilesIdle /\ WebIdle

CallExtraerDatos ==
    /\ ~processed.called
    /\ processed' = extraer_datos(data.tickers, data.download)
    /\ UNCHANGED <<data, checked, rateVars, fileVars, webVars>>

NextFetch == CallExtraerDatos

SpecFetch == InitFetch /\ [][NextFetch]_vars

\* The call was made with two or more tickers and the provider returned two-level
\* columns holding a Close field for each of them.
CloseForEachTicker ==
    /\ processed.called /\ data.tickers.list /\ Len(data.tickers.names) > 1
    /\ data.download.raised = "none" /\ data.download.value.multi
    /\ \A t \in Range(data.tickers.names) :
          \E j \in DOMAIN data.download.value.columns :
              data.download.value.columns[j] = <<t, "Close">>

\* The column of the returned table labelled t holds, date by date, what the
\* provider returned as the Close of t.
HoldsCloseOf(t) ==
    \E j \in DOMAIN processed.value.cols :
        /\ processed.value.cols[j] = t
        /\ \E c \in DOMAIN data.download.value.columns :
              /\ data.download.value.columns[c] = <<t, "Close">>
              /\ \A i \in DOMAIN data.download.value.rows :
                    processed.value.rows[i][j] = data.download.value.rows[i][c]

\* C14 (as claimed): for every order of the provider's columns the returned table
\* has exactly one column per ticker and the column labelled with a ticker holds
\* that ticker's Close prices.
ColumnsHoldTheirOwnClose ==
    CloseForEachTicker =>
        /\ processed.raised = "none" /\ ~processed.value.none
        /\ Len(processed.value.cols) = Len(data.tickers.names)
        /\ Range(processed.value.cols) = Range(data.tickers.names)
        /\ Len(processed.value.rows) = Len(data.download.value.rows)
        /\ \A t \in Range(data.tickers.names) : HoldsCloseOf(t)

\* C14, when the ticker level of the column index lists the tickers in the order
\* of the columns: holds of the code.
ColumnsHoldTheirOwnCloseInLevelOrder ==
    (/\ CloseForEachTicker
     /\ \A k \in DOMAIN data.download.value.levels0 :
           \E j \in DOMAIN data.download.value.columns :
               /\ data.download.value.columns[j] = <<data.download.value.levels0[k], "Close">>
               /\ Cardinality({c \in 1..j : data.download.value.columns[c][2] = "Close"}) = k) =>
        /\ processed.raised = "none" /\ ~processed.value.none
        /\ Len(processed.value.cols) = Len(data.tickers.names)
        /\ Range(processed.value.cols) = Range(data.tickers.names)
        /\ Len(processed.value.rows) = Len(data.download.value.rows)
        /\ \A t \in Range(data.tickers.names) : HoldsCloseOf(t)

====
